---- MODULE Spec2Model ----
(***************************************************************************)
(* IncidentDesk: the SQLite store (class DB of IncidentDesk.py) as a state  *)
(* machine.  Every DB method is one action; a method is a sequence of SQL   *)
(* statements followed by conn.commit().  A statement that violates a       *)
(* constraint raises sqlite3.IntegrityError out of the method: the effects  *)
(* of the statements before it stay in the connection's open transaction    *)
(* (and are visible to every later query on the same connection), and the   *)
(* commit is skipped.                                                        *)
(*                                                                           *)
(* Encodings.  Optional[int] is a sequence of length <= 1 (None is <<>>).    *)
(* A picklist name is a sequence of characters, so that str.strip() is a     *)
(* real conversion.  A timestamp text "YYYY-MM-DD HH:MM" is the sequence of  *)
(* its fixed-width fields <<day, minute>>, a date text "YYYY-MM-DD" is       *)
(* <<day>>, "" is <<>> and <<0>> is a text that is no date; text collation   *)
(* is lexicographic over the fields.  A table whose rowid no statement ever  *)
(* reads (incident_units, notes) is the sequence of its rows in rowid order: *)
(* an INSERT appends, since a fresh rowid exceeds every rowid present.       *)
(*                                                                           *)
(* lastOp, err and ret record the last call, whether it raised, and what it  *)
(* returned.  table is the picklist a manager window (ListManager.table) is  *)
(* open on, "none" when no manager window is open.  board is the rows of the  *)
(* main window's tree (App.tree), filters the four variables of its filter   *)
(* bar, form the open IncidentForm (NoForm when none is open) and handler    *)
(* the name of the window callback that ran last.  The specifications of the *)
(* store alone run without a main window: these four keep their initial      *)
(* values.                                                                   *)
(***************************************************************************)
EXTENDS Integers, Sequences, FiniteSets, TLC

VARIABLES locations, units, incident_types, incidents, incident_units, notes,
          in_transaction, table, lastOp, err, ret,
          board, filters, form, handler

vars == <<locations, units, incident_types, incidents, incident_units, notes,
          in_transaction, table, lastOp, err, ret,
          board, filters, form, handler>>

tables == <<locations, units, incident_types, incidents, incident_units, notes>>

\* The state of the windows: the rows on the board, the filter bar, the open
\* incident form, and the handler that ran last.
ui == <<board, filters, form, handler>>

\* ---------------------------------------------------------------- bounds
MaxPickId == 2
MaxPickIncId == 1
MaxIncId == 2
MaxAssignIncId == 1
MaxNotes == 2
MaxBackups == 2
MaxBoardIncId == 3
MaxFilterIncId == 2
MaxStoreIncId == 1
MaxListedNotes == 3
MaxAppIncId == 1

\* ---------------------------------------------------------------- values
None == <<>>
Some(x) == <<x>>

\* Python truth value of an Optional[int]: None and 0 are both false.
Truthy(o) == o # None /\ o[1] # 0

NoError == "none"
IntegrityError == "IntegrityError"

RECURSIVE lstrip(_)
lstrip(s) == IF s # <<>> /\ Head(s) = " " THEN lstrip(Tail(s)) ELSE s

RECURSIVE rstrip(_)
rstrip(s) ==
    IF s # <<>> /\ s[Len(s)] = " " THEN rstrip(SubSeq(s, 1, Len(s) - 1)) ELSE s

strip(s) == rstrip(lstrip(s))

\* Text collation (BINARY): lexicographic, a proper prefix sorts first.
RECURSIVE TextLess(_, _)
TextLess(a, b) ==
    IF b = <<>> THEN FALSE
    ELSE IF a = <<>> THEN TRUE
    ELSE IF Head(a) < Head(b) THEN TRUE
    ELSE IF Head(a) > Head(b) THEN FALSE
    ELSE TextLess(Tail(a), Tail(b))

\* SQLite date(text): the date part of a date or date-time text, NULL (None)
\* for a text that is neither.
date(t) == IF Len(t) \in {1, 2} /\ t[1] >= 1 THEN Some(t[1]) ELSE None

\* rowid of an INSERT into an INTEGER PRIMARY KEY table: one more than the
\* largest rowid present, 1 in an empty table.
MaxOf(S) == CHOOSE x \in S : \A y \in S : y <= x
NextRowId(ids) == IF ids = {} THEN 1 ELSE MaxOf(ids) + 1

\* f with row id removed / with row id set to v.
Without(f, id) == [k \in DOMAIN f \ {id} |-> f[k]]
With(f, id, v) == [k \in DOMAIN f \cup {id} |-> IF k = id THEN v ELSE f[k]]

\* The rows of s that remain after DELETE ... WHERE incident_id = id.
RECURSIVE WithoutIncident(_, _)
WithoutIncident(s, id) ==
    IF s = <<>> THEN <<>>
    ELSE IF Head(s).incident_id = id THEN WithoutIncident(Tail(s), id)
    ELSE <<Head(s)>> \o WithoutIncident(Tail(s), id)

\* ---------------------------------------------------------------- schema
\* UNIQUE(name): some row other than `id` already carries `name`.
NameNeverTaken(tbl, name, id) == FALSE

NameTaken(tbl, name, id) == \E k \in DOMAIN tbl : k # id /\ tbl[k].name = name

\* FOREIGN KEY incidents.location_id REFERENCES locations(id)
LocationNeverReferenced(loc_id) == FALSE

LocationReferenced(loc_id) ==
    \E i \in DOMAIN incidents : incidents[i].location_id = Some(loc_id)

\* FOREIGN KEY incident_units.unit_id REFERENCES units(id)
UnitNeverReferenced(unit_id) == FALSE

UnitReferenced(unit_id) ==
    \E k \in 1..Len(incident_units) : incident_units[k].unit_id = unit_id

\* A method returned: its statements ran and conn.commit() closed the
\* transaction.
Returns(op, value) ==
    /\ lastOp' = op
    /\ UNCHANGED table
    /\ err' = NoError
    /\ ret' = value
    /\ in_transaction' = FALSE

\* A statement raised: the exception leaves the method before conn.commit().
Raises(op) ==
    /\ lastOp' = op
    /\ UNCHANGED table
    /\ err' = IntegrityError
    /\ ret' = None
    /\ in_transaction' = TRUE

\* A query: no transaction is opened or closed.
Answers(op, value) ==
    /\ lastOp' = op
    /\ UNCHANGED table
    /\ err' = NoError
    /\ ret' = value
    /\ UNCHANGED in_transaction

\* ---------------------------------------------------------------- picklists
\* INSERT OR IGNORE INTO <tbl>(...) VALUES(row): a row whose name is already
\* present is skipped without an error.
InsertOrReplace(tbl, row) ==
    LET kept == {k \in DOMAIN tbl : tbl[k].name # row.name}
        rest == [k \in kept |-> tbl[k]]
    IN  With(rest, NextRowId(DOMAIN tbl), row)

InsertAnyway(tbl, row) == With(tbl, NextRowId(DOMAIN tbl), row)

InsertOrIgnore(tbl, row) ==
    IF NameTaken(tbl, row.name, 0) THEN tbl
    ELSE With(tbl, NextRowId(DOMAIN tbl), row)

add_location(name) ==
    /\ locations' = InsertOrIgnore(locations, [name |-> strip(name)])
    /\ UNCHANGED <<units, incident_types, incidents, incident_units, notes>>
    /\ Returns([op |-> "add_location", name |-> name], None)

rename_location(loc_id, new_name) ==
    LET op == [op |-> "rename_location", id |-> loc_id, name |-> new_name]
        row == [name |-> strip(new_name)]
    IN  IF loc_id \in DOMAIN locations /\ NameTaken(locations, row.name, loc_id)
        THEN UNCHANGED tables /\ Raises(op)
        ELSE /\ locations' = IF loc_id \in DOMAIN locations
                             THEN With(locations, loc_id, row) ELSE locations
             /\ UNCHANGED <<units, incident_types, incidents, incident_units, notes>>
             /\ Returns(op, None)

delete_location(loc_id) ==
    LET op == [op |-> "delete_location", id |-> loc_id]
    IN  IF loc_id \in DOMAIN locations /\ LocationReferenced(loc_id)
        THEN UNCHANGED tables /\ Raises(op)
        ELSE /\ locations' = Without(locations, loc_id)
             /\ UNCHANGED <<units, incident_types, incidents, incident_units, notes>>
             /\ Returns(op, None)

add_unit(name, category) ==
    /\ units' = InsertOrIgnore(units,
                    [name |-> strip(name), category |-> strip(category)])
    /\ UNCHANGED <<locations, incident_types, incidents, incident_units, notes>>
    /\ Returns([op |-> "add_unit", name |-> name, category |-> category], None)

update_unit(unit_id, name, category) ==
    LET op == [op |-> "update_unit", id |-> unit_id, name |-> name,
               category |-> category]
        row == [name |-> strip(name), category |-> strip(category)]
    IN  IF unit_id \in DOMAIN units /\ NameTaken(units, row.name, unit_id)
        THEN UNCHANGED tables /\ Raises(op)
        ELSE /\ units' = IF unit_id \in DOMAIN units
                         THEN With(units, unit_id, row) ELSE units
             /\ UNCHANGED <<locations, incident_types, incidents, incident_units, notes>>
             /\ Returns(op, None)

delete_unit(unit_id) ==
    LET op == [op |-> "delete_unit", id |-> unit_id]
    IN  IF unit_id \in DOMAIN units /\ UnitReferenced(unit_id)
        THEN UNCHANGED tables /\ Raises(op)
        ELSE /\ units' = Without(units, unit_id)
             /\ UNCHANGED <<locations, incident_types, incidents, incident_units, notes>>
             /\ Returns(op, None)

add_incident_type(name) ==
    /\ incident_types' = InsertOrIgnore(incident_types, [name |-> strip(name)])
    /\ UNCHANGED <<locations, units, incidents, incident_units, notes>>
    /\ Returns([op |-> "add_incident_type", name |-> name], None)

rename_incident_type(type_id, new_name) ==
    LET op == [op |-> "rename_incident_type", id |-> type_id, name |-> new_name]
        row == [name |-> strip(new_name)]
    IN  IF type_id \in DOMAIN incident_types
           /\ NameTaken(incident_types, row.name, type_id)
        THEN UNCHANGED tables /\ Raises(op)
        ELSE /\ incident_types' = IF type_id \in DOMAIN incident_types
                                  THEN With(incident_types, type_id, row)
                                  ELSE incident_types
             /\ UNCHANGED <<locations, units, incidents, incident_units, notes>>
             /\ Returns(op, None)

\* incidents.type is plain text, no foreign key: the delete never looks at
\* the incidents.
delete_incident_type_set_null(type_id) ==
    LET op == [op |-> "delete_incident_type", id |-> type_id]
    IN  IF /\ type_id \in DOMAIN incident_types
           /\ \E i \in DOMAIN incidents :
                  incidents[i].type = incident_types[type_id].name
        THEN /\ incidents' = [i \in DOMAIN incidents |->
                    IF incidents[i].type = incident_types[type_id].name
                    THEN [incidents[i] EXCEPT !.type = <<>>] ELSE incidents[i]]
             /\ incident_types' = Without(incident_types, type_id)
             /\ UNCHANGED <<locations, units, incident_units, notes>>
             /\ Returns(op, None)
        ELSE /\ incident_types' = Without(incident_types, type_id)
             /\ UNCHANGED <<locations, units, incidents, incident_units, notes>>
             /\ Returns(op, None)

delete_incident_type(type_id) ==
    /\ incident_types' = Without(incident_types, type_id)
    /\ UNCHANGED <<locations, units, incidents, incident_units, notes>>
    /\ Returns([op |-> "delete_incident_type", id |-> type_id], None)

\* ---------------------------------------------------------------- incidents
\* FOREIGN KEY(location_id) REFERENCES locations(id): NULL or an existing row.
LocationOk(location_id) ==
    location_id = None \/ location_id[1] \in DOMAIN locations

IncidentRow(location_id, type_name, reported_at, dispatched_at, arrived_at, cleared_at, disposition, is_cleared) ==
    [location_id |-> location_id, type |-> type_name,
     reported_at |-> reported_at, dispatched_at |-> dispatched_at,
     arrived_at |-> arrived_at, cleared_at |-> cleared_at,
     disposition |-> disposition, is_cleared |-> is_cleared]

\* The assignment INSERTs of create_incident / update_incident, in the order
\* the method issues them: the primary (if truthy), then each backup.
Wanted(primary_unit_id, backup_unit_ids) ==
    (IF Truthy(primary_unit_id)
     THEN <<[unit_id |-> primary_unit_id[1], role |-> "primary"]>> ELSE <<>>)
    \o [k \in 1..Len(backup_unit_ids) |->
            [unit_id |-> backup_unit_ids[k], role |-> "backup"]]

\* Run the INSERTs one by one; the first whose incident or unit does not exist
\* fails its foreign key and stops the method, the earlier rows stay.
RECURSIVE InsertAssignments(_, _, _, _)
InsertAssignments(tbl, inc_exists, inc_id, wanted) ==
    IF wanted = <<>> THEN [rows |-> tbl, ok |-> TRUE]
    ELSE IF inc_exists /\ Head(wanted).unit_id \in DOMAIN units
    THEN InsertAssignments(
             Append(tbl, [incident_id |-> inc_id,
                          unit_id |-> Head(wanted).unit_id,
                          role |-> Head(wanted).role]),
             inc_exists, inc_id, Tail(wanted))
    ELSE [rows |-> tbl, ok |-> FALSE]

create_incident(location_id, type_name, reported_at, dispatched_at, arrived_at, cleared_at, disposition, is_cleared, primary_unit_id, backup_unit_ids) ==
    LET op == [op |-> "create_incident", location_id |-> location_id,
               primary |-> primary_unit_id, backups |-> backup_unit_ids]
        inc_id == NextRowId(DOMAIN incidents)
        ins == InsertAssignments(incident_units, TRUE, inc_id,
                                 Wanted(primary_unit_id, backup_unit_ids))
    IN  IF ~LocationOk(location_id)
        THEN UNCHANGED tables /\ Raises(op)
        ELSE /\ incidents' = With(incidents, inc_id,
                    IncidentRow(location_id, type_name, reported_at,
                                dispatched_at, arrived_at, cleared_at,
                                disposition, is_cleared))
             /\ incident_units' = ins.rows
             /\ UNCHANGED <<locations, units, incident_types, notes>>
             /\ IF ins.ok THEN Returns(op, inc_id) ELSE Raises(op)

\* "reset assignments": DELETE FROM incident_units WHERE incident_id=?
KeepAssignments(tbl, inc_id) == tbl

ResetAssignments(tbl, inc_id) == WithoutIncident(tbl, inc_id)

update_incident(inc_id, location_id, type_name, reported_at, dispatched_at, arrived_at, cleared_at, disposition, is_cleared, primary_unit_id, backup_unit_ids) ==
    LET op == [op |-> "update_incident", id |-> inc_id,
               location_id |-> location_id,
               primary |-> primary_unit_id, backups |-> backup_unit_ids]
        exists == inc_id \in DOMAIN incidents
        ins == InsertAssignments(ResetAssignments(incident_units, inc_id),
                                 exists, inc_id,
                                 Wanted(primary_unit_id, backup_unit_ids))
    IN  IF exists /\ ~LocationOk(location_id)
        THEN UNCHANGED tables /\ Raises(op)
        ELSE /\ incidents' =
                    IF exists
                    THEN With(incidents, inc_id,
                             IncidentRow(location_id, type_name, reported_at,
                                         dispatched_at, arrived_at, cleared_at,
                                         disposition, is_cleared))
                    ELSE incidents
             /\ incident_units' = ins.rows
             /\ UNCHANGED <<locations, units, incident_types, notes>>
             /\ IF ins.ok THEN Returns(op, None) ELSE Raises(op)

\* FOREIGN KEY(incident_id) REFERENCES incidents(id) ON DELETE CASCADE, on
\* incident_units and on notes.
NoCascade(tbl, inc_id) == tbl

CascadeAssignments(tbl, inc_id) == WithoutIncident(tbl, inc_id)

KeepNotes(tbl, inc_id) == tbl

CascadeNotes(tbl, inc_id) == WithoutIncident(tbl, inc_id)

delete_incident(inc_id) ==
    /\ incidents' = Without(incidents, inc_id)
    /\ incident_units' = CascadeAssignments(incident_units, inc_id)
    /\ notes' = CascadeNotes(notes, inc_id)
    /\ UNCHANGED <<locations, units, incident_types>>
    /\ Returns([op |-> "delete_incident", id |-> inc_id], None)

\* INSERT INTO notes(incident_id, ts, body): a new row, after every row there.
ReplaceNote(tbl, row) == Append(WithoutIncident(tbl, row.incident_id), row)

InsertNote(tbl, row) == Append(tbl, row)

add_note(inc_id, ts, body) ==
    LET op == [op |-> "add_note", id |-> inc_id, ts |-> ts, body |-> body]
    IN  IF inc_id \in DOMAIN incidents
        THEN /\ notes' = InsertNote(notes,
                    [incident_id |-> inc_id, ts |-> ts, body |-> body])
             /\ UNCHANGED <<locations, units, incident_types, incidents,
                            incident_units>>
             /\ Returns(op, None)
        ELSE UNCHANGED tables /\ Raises(op)

\* SELECT * FROM notes WHERE incident_id=? ORDER BY ts: the incident's rows,
\* a before b when a.ts sorts before b.ts.  SQL leaves the order of rows with
\* equal ts open; the sorter below keeps them in rowid order, and the notes
\* added in SpecNotes that have equal ts are equal rows.
RECURSIVE NotesOf(_, _)
NotesOf(tbl, inc_id) ==
    IF tbl = <<>> THEN <<>>
    ELSE (IF Head(tbl).incident_id = inc_id THEN <<Head(tbl)>> ELSE <<>>)
         \o NotesOf(Tail(tbl), inc_id)

NotesBeforeNever(a, b) == FALSE

NotesBefore(a, b) == TextLess(a.ts, b.ts)

RECURSIVE InsertNoteSorted(_, _)
InsertNoteSorted(sorted, r) ==
    IF sorted = <<>> THEN <<r>>
    ELSE IF NotesBefore(r, Head(sorted)) THEN <<r>> \o sorted
    ELSE <<Head(sorted)>> \o InsertNoteSorted(Tail(sorted), r)

RECURSIVE OrderByTs(_, _)
OrderByTs(rows, sorted) ==
    IF rows = <<>> THEN sorted
    ELSE OrderByTs(Tail(rows), InsertNoteSorted(sorted, Head(rows)))

ListNotes(inc_id) == OrderByTs(NotesOf(notes, inc_id), <<>>)

list_notes(inc_id) ==
    /\ UNCHANGED tables
    /\ Answers([op |-> "list_notes", id |-> inc_id], ListNotes(inc_id))

\* UPDATE incidents SET is_cleared=?, cleared_at=? with the parameters
\* (1 if cleared else 0, cleared_at or "").  The text "" and None are both
\* <<>>, as `cleared_at or ""` makes them.
SetClearedRowStamped(row, cleared, cleared_at) ==
    [row EXCEPT !.is_cleared = IF cleared THEN 1 ELSE 0,
                !.cleared_at = cleared_at,
                !.arrived_at = IF row.arrived_at = <<>> THEN cleared_at
                               ELSE row.arrived_at]

SetClearedRowToggled(row, cleared, cleared_at) ==
    [row EXCEPT !.is_cleared = 1 - row.is_cleared,
                !.cleared_at = cleared_at]

SetClearedRow(row, cleared, cleared_at) ==
    [row EXCEPT !.is_cleared = IF cleared THEN 1 ELSE 0,
                !.cleared_at = cleared_at]

set_cleared(inc_id, cleared, cleared_at) ==
    /\ incidents' = IF inc_id \in DOMAIN incidents
                    THEN With(incidents, inc_id,
                              SetClearedRow(incidents[inc_id], cleared, cleared_at))
                    ELSE incidents
    /\ UNCHANGED <<locations, units, incident_types, incident_units, notes>>
    /\ Returns([op |-> "set_cleared", id |-> inc_id, cleared |-> cleared,
                cleared_at |-> cleared_at], None)

\* SELECT unit_id ... role='primary' (fetchone) and ... role='backup'
\* (fetchall), both scanning incident_units in rowid order.
RECURSIVE UnitIds(_, _, _)
UnitIds(tbl, inc_id, role) ==
    IF tbl = <<>> THEN <<>>
    ELSE (IF Head(tbl).incident_id = inc_id /\ Head(tbl).role = role
          THEN <<Head(tbl).unit_id>> ELSE <<>>)
         \o UnitIds(Tail(tbl), inc_id, role)

GetAssignments(inc_id) ==
    LET primary == UnitIds(incident_units, inc_id, "primary")
        backups == UnitIds(incident_units, inc_id, "backup")
    IN  <<IF primary # <<>> THEN Some(Head(primary)) ELSE None, backups>>

get_incident_assignments(inc_id) ==
    /\ UNCHANGED tables
    /\ Answers([op |-> "get_incident_assignments", id |-> inc_id],
               GetAssignments(inc_id))

\* ---------------------------------------------------------------- board
RECURSIVE Ascending(_)
Ascending(S) ==
    IF S = {} THEN <<>>
    ELSE LET m == CHOOSE x \in S : \A y \in S : x <= y
         IN  <<m>> \o Ascending(S \ {m})

RECURSIVE AssignmentsOf(_, _)
AssignmentsOf(tbl, inc_id) ==
    IF tbl = <<>> THEN <<>>
    ELSE (IF Head(tbl).incident_id = inc_id THEN <<Head(tbl)>> ELSE <<>>)
         \o AssignmentsOf(Tail(tbl), inc_id)

\* FROM incidents i LEFT JOIN incident_units iu ON iu.incident_id=i.id
\*                  LEFT JOIN units u ON u.id=iu.unit_id
\* for one incident: a row per assignment, or one row of NULLs when it has none.
JoinedRows(i) ==
    LET a == AssignmentsOf(incident_units, i)
    IN  IF a = <<>> THEN <<[id |-> i, role |-> "NULL", unit_name |-> None]>>
        ELSE [k \in 1..Len(a) |->
                [id |-> i, role |-> a[k].role,
                 unit_name |-> IF a[k].unit_id \in DOMAIN units
                               THEN Some(units[a[k].unit_id].name) ELSE None]]

RECURSIVE JoinAll(_)
JoinAll(ids) ==
    IF ids = <<>> THEN <<>> ELSE JoinedRows(Head(ids)) \o JoinAll(Tail(ids))

\* The WHERE clauses, each appended only when its filter is truthy.
WhereLocation(i, loc_filter) ==
    Truthy(loc_filter) => incidents[i].location_id = loc_filter

WhereType(i, type_filter) ==
    type_filter # <<>> => incidents[i].type = type_filter

\* date(i.reported_at) >= date(?): NULL on either side is not true.
WhereStart(i, start_date) ==
    start_date # <<>> =>
        /\ date(incidents[i].reported_at) # None
        /\ date(start_date) # None
        /\ date(incidents[i].reported_at)[1] >= date(start_date)[1]

\* date(i.reported_at) <= date(?)
WhereEndText(i, end_date) ==
    end_date # <<>> =>
        ~TextLess(end_date, incidents[i].reported_at)

WhereEnd(i, end_date) ==
    end_date # <<>> =>
        /\ date(incidents[i].reported_at) # None
        /\ date(end_date) # None
        /\ date(incidents[i].reported_at)[1] <= date(end_date)[1]

Where(i, loc_filter, type_filter, start_date, end_date) ==
    /\ WhereLocation(i, loc_filter)
    /\ WhereType(i, type_filter)
    /\ WhereStart(i, start_date)
    /\ WhereEnd(i, end_date)

RECURSIVE Filtered(_, _, _, _, _)
Filtered(rows, loc_filter, type_filter, start_date, end_date) ==
    IF rows = <<>> THEN <<>>
    ELSE (IF Where(Head(rows).id, loc_filter, type_filter, start_date, end_date)
          THEN <<Head(rows)>> ELSE <<>>)
         \o Filtered(Tail(rows), loc_filter, type_filter, start_date, end_date)

\* GROUP_CONCAT(CASE iu.role WHEN role THEN u.name END): the non-NULL names of
\* the group, NULL when there is none.
RECURSIVE NamesWithRole(_, _)
NamesWithRole(rows, role) ==
    IF rows = <<>> THEN <<>>
    ELSE (IF Head(rows).role = role /\ Head(rows).unit_name # None
          THEN Head(rows).unit_name ELSE <<>>)
         \o NamesWithRole(Tail(rows), role)

GroupConcat(rows, role) ==
    IF NamesWithRole(rows, role) = <<>> THEN None
    ELSE Some(NamesWithRole(rows, role))

\* One result row: i.*, l.name as location_name, and the two aggregates.
BoardRow(rows) ==
    LET i == Head(rows).id
        loc == incidents[i].location_id
    IN  [id |-> i,
         incident |-> incidents[i],
         location_name |-> IF loc # None /\ loc[1] \in DOMAIN locations
                           THEN Some(locations[loc[1]].name) ELSE None,
         primary_units |-> GroupConcat(rows, "primary"),
         backup_units |-> GroupConcat(rows, "backup")]

RECURSIVE RowsWithId(_, _)
RowsWithId(rows, id) ==
    IF rows = <<>> THEN <<>>
    ELSE (IF Head(rows).id = id THEN <<Head(rows)>> ELSE <<>>)
         \o RowsWithId(Tail(rows), id)

RECURSIVE RowsWithoutId(_, _)
RowsWithoutId(rows, id) ==
    IF rows = <<>> THEN <<>>
    ELSE (IF Head(rows).id # id THEN <<Head(rows)>> ELSE <<>>)
         \o RowsWithoutId(Tail(rows), id)

\* GROUP BY i.id: the joined rows of one incident collapse into one row.
RECURSIVE Ungrouped(_)
Ungrouped(rows) ==
    IF rows = <<>> THEN <<>>
    ELSE <<BoardRow(<<Head(rows)>>)>> \o Ungrouped(Tail(rows))

RECURSIVE GroupBy(_)
GroupBy(rows) ==
    IF rows = <<>> THEN <<>>
    ELSE <<BoardRow(RowsWithId(rows, Head(rows).id))>>
         \o GroupBy(RowsWithoutId(rows, Head(rows).id))

\* ORDER BY i.is_cleared ASC, i.reported_at DESC: a strictly sorts before b.
BoardBeforeAsc(a, b) ==
    \/ a.incident.is_cleared < b.incident.is_cleared
    \/ /\ a.incident.is_cleared = b.incident.is_cleared
       /\ TextLess(a.incident.reported_at, b.incident.reported_at)

BoardBefore(a, b) ==
    \/ a.incident.is_cleared < b.incident.is_cleared
    \/ /\ a.incident.is_cleared = b.incident.is_cleared
       /\ TextLess(b.incident.reported_at, a.incident.reported_at)

\* The sorter: rows equal under ORDER BY keep the order GROUP BY emitted them in.
RECURSIVE InsertSorted(_, _)
InsertSorted(sorted, r) ==
    IF sorted = <<>> THEN <<r>>
    ELSE IF BoardBefore(r, Head(sorted)) THEN <<r>> \o sorted
    ELSE <<Head(sorted)>> \o InsertSorted(Tail(sorted), r)

RECURSIVE OrderBy(_, _)
OrderBy(rows, sorted) ==
    IF rows = <<>> THEN sorted
    ELSE OrderBy(Tail(rows), InsertSorted(sorted, Head(rows)))

\* The statement, stage by stage: FROM/JOIN, WHERE, GROUP BY, ORDER BY, each
\* over the one result of the stage before.
FetchBoard(loc_filter, type_filter, start_date, end_date) ==
    LET joined == {JoinAll(Ascending(DOMAIN incidents))}
        kept == {Filtered(j, loc_filter, type_filter, start_date, end_date) :
                     j \in joined}
        grouped == {GroupBy(k) : k \in kept}
    IN  CHOOSE sorted \in {OrderBy(g, <<>>) : g \in grouped} : TRUE

fetch_board(loc_filter, type_filter, start_date, end_date) ==
    /\ UNCHANGED tables
    /\ Answers([op |-> "fetch_board", loc_filter |-> loc_filter,
                type_filter |-> type_filter, start_date |-> start_date,
                end_date |-> end_date],
               FetchBoard(loc_filter, type_filter, start_date, end_date))

\* ---------------------------------------------------------------- inputs
\* Texts the callers pass as names; two of them differ only by white space.
RawNames == {<<"a">>, <<" ", "a">>, <<"b">>}
Categories == {<<>>, <<"c", " ">>}
TypeNames == {<<"a">>, <<"b">>}

\* "YYYY-MM-DD HH:MM" texts: two times of one day, and a later day.
Stamps == {<<1, 0>>, <<1, 1>>, <<2, 0>>}
\* "YYYY-MM-DD" texts.
Dates == {<<1>>, <<2>>}
\* A text that is no date.
NotADate == <<0>>

SeqsUpTo(S, n) == UNION {[1..k -> S] : k \in 0..n}

\* No main window: nothing on the board, nothing in the filter bar, no form.
NoFilters ==
    [from_var |-> <<>>, to_var |-> <<>>, loc_filter_var |-> <<>>,
     type_filter_var |-> <<>>]

NoForm == <<>>

NoApp ==
    /\ board = <<>>
    /\ filters = NoFilters
    /\ form = NoForm
    /\ handler = "none"

\* ---------------------------------------------------------------- SpecPicklist
\* One picklist, the one the manager window is open on, under add / rename /
\* delete, with incidents that reference its rows.
InitPicklist ==
    /\ locations = <<>>
    /\ units = <<>>
    /\ incident_types = <<>>
    /\ incidents = <<>>
    /\ incident_units = <<>>
    /\ notes = <<>>
    /\ in_transaction = FALSE
    /\ table \in {"locations", "units", "incident_types"}
    /\ lastOp = [op |-> "init"]
    /\ err = NoError
    /\ ret = None
    /\ NoApp

PickIds == 1..MaxPickId

\* An INSERT that would take a rowid beyond the bound is left out.
Room(tbl, name) ==
    NameTaken(tbl, strip(name), 0) \/ NextRowId(DOMAIN tbl) <= MaxPickId

AddLocation == \E n \in RawNames :
        /\ table = "locations"
        /\ Room(locations, n) /\ add_location(n)
        /\ UNCHANGED ui

RenameLocation == \E id \in PickIds, n \in RawNames :
        /\ table = "locations"
        /\ rename_location(id, n)
        /\ UNCHANGED ui

DeleteLocation == \E id \in PickIds :
        /\ table = "locations"
        /\ delete_location(id)
        /\ UNCHANGED ui

AddUnit ==
    \E n \in RawNames, c \in Categories :
        /\ table = "units"
        /\ Room(units, n) /\ add_unit(n, c)
        /\ UNCHANGED ui

UpdateUnit ==
    \E id \in PickIds, n \in RawNames, c \in Categories :
        /\ table = "units"
        /\ update_unit(id, n, c)
        /\ UNCHANGED ui

DeleteUnit == \E id \in PickIds :
        /\ table = "units"
        /\ delete_unit(id)
        /\ UNCHANGED ui

AddIncidentType ==
    \E n \in RawNames :
        /\ table = "incident_types"
        /\ Room(incident_types, n) /\ add_incident_type(n)
        /\ UNCHANGED ui

RenameIncidentType ==
    \E id \in PickIds, n \in RawNames :
        /\ table = "incident_types"
        /\ rename_incident_type(id, n)
        /\ UNCHANGED ui

DeleteIncidentType == \E id \in PickIds :
        /\ table = "incident_types"
        /\ delete_incident_type(id)
        /\ UNCHANGED ui

PickCreateIncident ==
    \E loc \in {None} \cup {Some(i) : i \in PickIds},
       t \in TypeNames,
       p \in {None} \cup {Some(i) : i \in PickIds} :
        /\ NextRowId(DOMAIN incidents) <= MaxPickIncId
        /\ create_incident(loc, t, <<1, 0>>, <<>>, <<>>, <<>>, <<>>, 0, p, <<>>)
        /\ UNCHANGED ui

PickDeleteIncident == \E id \in 1..MaxPickIncId : delete_incident(id)
    /\ UNCHANGED ui

NextPicklist ==
    \/ AddLocation
    \/ RenameLocation
    \/ DeleteLocation
    \/ AddUnit
    \/ UpdateUnit
    \/ DeleteUnit
    \/ AddIncidentType
    \/ RenameIncidentType
    \/ DeleteIncidentType
    \/ PickCreateIncident
    \/ PickDeleteIncident

SpecPicklist == InitPicklist /\ [][NextPicklist]_vars

\* ---------------------------------------------------------------- picklist claims
\* Some row of tbl carries the name n / some row other than id does.
Carries(tbl, n) == \E k \in DOMAIN tbl : tbl[k].name = n
OtherCarries(tbl, id, n) == \E k \in DOMAIN tbl \ {id} : tbl[k].name = n

\* C5: for each picklist, an add whose name (as the store compares it, after
\* strip) is already in the table leaves the table as it was - same rows, same
\* ids, same categories - and raises nothing.
C5_AddExistingIsNoOp ==
    [][/\ (lastOp'.op = "add_location"
              /\ Carries(locations, strip(lastOp'.name)))
          => (locations' = locations /\ err' = NoError)
       /\ (lastOp'.op = "add_unit" /\ Carries(units, strip(lastOp'.name)))
          => (units' = units /\ err' = NoError)
       /\ (lastOp'.op = "add_incident_type"
              /\ Carries(incident_types, strip(lastOp'.name)))
          => (incident_types' = incident_types /\ err' = NoError)]_vars

\* add_unit returned, and the row that carries the name still has a category
\* other than the one passed: the name was there before and was not touched.
C5_Witness ==
    /\ lastOp.op = "add_unit"
    /\ err = NoError
    /\ \E k \in DOMAIN units :
          /\ units[k].name = strip(lastOp.name)
          /\ units[k].category # strip(lastOp.category)

\* C6 as stated: delete_location / delete_unit always remove the row and
\* raise nothing, referenced or not.
C6_DeleteAlwaysRemoves ==
    /\ lastOp.op = "delete_location"
          => (err = NoError /\ lastOp.id \notin DOMAIN locations)
    /\ lastOp.op = "delete_unit"
          => (err = NoError /\ lastOp.id \notin DOMAIN units)

\* C6 amended: delete_location / delete_unit remove the row only when no
\* incident / assignment references it; when one does, the call raises
\* IntegrityError and every table is left as it was.  Nothing cascades in
\* either case.
C6_DeleteRefusedWhenReferenced ==
    [][/\ lastOp'.op = "delete_location" =>
            IF /\ lastOp'.id \in DOMAIN locations
               /\ \E i \in DOMAIN incidents :
                      incidents[i].location_id = Some(lastOp'.id)
            THEN err' = IntegrityError /\ UNCHANGED tables
            ELSE /\ err' = NoError
                 /\ locations' = Without(locations, lastOp'.id)
                 /\ UNCHANGED <<units, incident_types, incidents,
                                incident_units, notes>>
       /\ lastOp'.op = "delete_unit" =>
            IF /\ lastOp'.id \in DOMAIN units
               /\ \E k \in 1..Len(incident_units) :
                      incident_units[k].unit_id = lastOp'.id
            THEN err' = IntegrityError /\ UNCHANGED tables
            ELSE /\ err' = NoError
                 /\ units' = Without(units, lastOp'.id)
                 /\ UNCHANGED <<locations, incident_types, incidents,
                                incident_units, notes>>]_vars

\* delete_location raised on a location that an incident references; the
\* location is still there.
C6_Witness ==
    /\ lastOp.op = "delete_location"
    /\ err = IntegrityError
    /\ lastOp.id \in DOMAIN locations
    /\ \E i \in DOMAIN incidents : incidents[i].location_id = Some(lastOp.id)

\* C7 as stated: after a rename / update of an existing row the row carries
\* the new name (stripped) and nothing was raised, whatever the new name.
C7_RenameAlwaysOverwrites ==
    /\ (lastOp.op = "rename_location" /\ lastOp.id \in DOMAIN locations)
          => (err = NoError /\ locations[lastOp.id].name = strip(lastOp.name))
    /\ (lastOp.op = "rename_incident_type"
           /\ lastOp.id \in DOMAIN incident_types)
          => (err = NoError
              /\ incident_types[lastOp.id].name = strip(lastOp.name))
    /\ (lastOp.op = "update_unit" /\ lastOp.id \in DOMAIN units)
          => (err = NoError /\ units[lastOp.id].name = strip(lastOp.name))

\* C7 amended: a rename / update of an existing row overwrites its name (and
\* category) with the stripped arguments and raises nothing, unless another
\* row of the same table carries the stripped new name: then the call raises
\* IntegrityError and every table is left as it was.
C7_RenameOverwritesUnlessTaken ==
    [][/\ (lastOp'.op = "rename_location" /\ lastOp'.id \in DOMAIN locations) =>
            IF OtherCarries(locations, lastOp'.id, strip(lastOp'.name))
            THEN err' = IntegrityError /\ UNCHANGED tables
            ELSE /\ err' = NoError
                 /\ locations' = [locations EXCEPT
                        ![lastOp'.id] = [name |-> strip(lastOp'.name)]]
       /\ (lastOp'.op = "rename_incident_type"
              /\ lastOp'.id \in DOMAIN incident_types) =>
            IF OtherCarries(incident_types, lastOp'.id, strip(lastOp'.name))
            THEN err' = IntegrityError /\ UNCHANGED tables
            ELSE /\ err' = NoError
                 /\ incident_types' = [incident_types EXCEPT
                        ![lastOp'.id] = [name |-> strip(lastOp'.name)]]
       /\ (lastOp'.op = "update_unit" /\ lastOp'.id \in DOMAIN units) =>
            IF OtherCarries(units, lastOp'.id, strip(lastOp'.name))
            THEN err' = IntegrityError /\ UNCHANGED tables
            ELSE /\ err' = NoError
                 /\ units' = [units EXCEPT
                        ![lastOp'.id] =
                            [name |-> strip(lastOp'.name),
                             category |-> strip(lastOp'.category)]]]_vars

\* update_unit raised: another unit carries the stripped new name, and the
\* row still has its old name.
C7_Witness ==
    /\ lastOp.op = "update_unit"
    /\ err = IntegrityError
    /\ lastOp.id \in DOMAIN units
    /\ OtherCarries(units, lastOp.id, strip(lastOp.name))
    /\ units[lastOp.id].name # strip(lastOp.name)

\* C10: delete_incident_type leaves every incident as it was (its type text
\* included), removes the picklist row and raises nothing, whether or not an
\* incident carries the deleted name.
C10_DeleteTypeKeepsIncidents ==
    [][lastOp'.op = "delete_incident_type" =>
          /\ incidents' = incidents
          /\ err' = NoError
          /\ incident_types' = Without(incident_types, lastOp'.id)]_vars

\* delete_incident_type returned, its row is gone, and an incident carries a
\* type text that no row of the picklist carries.
C10_Witness ==
    /\ lastOp.op = "delete_incident_type"
    /\ err = NoError
    /\ lastOp.id \notin DOMAIN incident_types
    /\ incident_types = <<>>
    /\ \E i \in DOMAIN incidents : incidents[i].type = <<"a">>

\* ---------------------------------------------------------------- Spec
\* The incident store: incidents with their assignments and notes, over a
\* database that already holds one location and two units.
Init ==
    /\ locations = (1 :> [name |-> <<"a">>])
    /\ units = (1 :> [name |-> <<"a">>, category |-> <<>>])
               @@ (2 :> [name |-> <<"b">>, category |-> <<>>])
    /\ incident_types = (1 :> [name |-> <<"a">>])
    /\ incidents = <<>>
    /\ incident_units = <<>>
    /\ notes = <<>>
    /\ in_transaction = FALSE
    /\ table = "none"
    /\ lastOp = [op |-> "init"]
    /\ err = NoError
    /\ ret = None
    /\ NoApp

IncIds == 1..MaxIncId

\* Location ids the callers pass: the existing one, and one that no row has.
LocArgs == {Some(1), Some(2)}

CreateIncident ==
    \E loc \in LocArgs :
        /\ NextRowId(DOMAIN incidents) <= MaxIncId
        /\ create_incident(loc, <<"a">>, <<1, 0>>, <<1, 1>>, <<>>, <<>>,
                           <<"x">>, 0, Some(1), <<2>>)
        /\ UNCHANGED ui

UpdateIncident ==
    \E id \in IncIds, c \in {0, 1} :
        update_incident(id, Some(1), <<"b">>, <<2, 0>>, <<>>, <<2, 1>>, <<>>,
                        <<>>, c, None, <<>>)
        /\ UNCHANGED ui

DeleteIncident == \E id \in IncIds : delete_incident(id)
    /\ UNCHANGED ui

AddNote ==
    \E id \in IncIds :
        /\ Len(notes) < MaxNotes
        /\ add_note(id, <<1, 0>>, <<"n">>)
        /\ UNCHANGED ui

SetCleared ==
    \E id \in IncIds, cleared \in BOOLEAN, at \in {<<>>, <<2, 1>>} :
        set_cleared(id, cleared, at)
        /\ UNCHANGED ui

Next ==
    \/ CreateIncident
    \/ UpdateIncident
    \/ DeleteIncident
    \/ AddNote
    \/ SetCleared

Spec == Init /\ [][Next]_vars

\* ---------------------------------------------------------------- SpecAssign
\* The assignment set of an incident under create / update / delete, read back
\* with get_incident_assignments.  Unit 3 is a unit id that no row has.
AssignIncIds == 1..MaxAssignIncId
PrimaryArgs == {None, Some(1), Some(2), Some(3)}
BackupArgs == SeqsUpTo({1, 2}, MaxBackups) \cup {<<2, 3>>}

AssignCreateIncident ==
    \E p \in PrimaryArgs, b \in BackupArgs :
        /\ NextRowId(DOMAIN incidents) <= MaxAssignIncId
        /\ create_incident(Some(1), <<"a">>, <<1, 0>>, <<>>, <<>>, <<>>,
                           <<>>, 0, p, b)
        /\ UNCHANGED ui

AssignUpdateIncident ==
    \E id \in AssignIncIds, p \in PrimaryArgs, b \in BackupArgs :
        update_incident(id, Some(1), <<"a">>, <<1, 0>>, <<>>, <<>>, <<>>,
                        <<>>, 0, p, b)
        /\ UNCHANGED ui

AssignDeleteIncident == \E id \in AssignIncIds : delete_incident(id)
    /\ UNCHANGED ui

GetIncidentAssignments ==
    \E id \in AssignIncIds : get_incident_assignments(id)
        /\ UNCHANGED ui

NextAssign ==
    \/ AssignCreateIncident
    \/ AssignUpdateIncident
    \/ AssignDeleteIncident
    \/ GetIncidentAssignments

SpecAssign == Init /\ [][NextAssign]_vars

\* ---------------------------------------------------------------- incident claims
\* C2: once update_incident(id, ..., primary, backups) has returned for an
\* existing incident, get_incident_assignments(id) yields exactly
\* (primary, backups): nothing of the earlier assignment set is left, and
\* (None, []) yields (None, []).
C2_UpdateReplacesAssignments ==
    (/\ lastOp.op = "update_incident"
     /\ err = NoError
     /\ lastOp.id \in DOMAIN incidents)
    => GetAssignments(lastOp.id) = <<lastOp.primary, lastOp.backups>>

\* update_incident returned with primary None and no backups on an existing
\* incident, whose assignment set is now empty.
C2_Witness ==
    /\ lastOp.op = "update_incident"
    /\ err = NoError
    /\ lastOp.id \in DOMAIN incidents
    /\ lastOp.primary = None
    /\ lastOp.backups = <<>>
    /\ GetAssignments(lastOp.id) = <<None, <<>>>>

\* C3: a delete_incident(id) step removes the incident row and every
\* assignment and note row of that id, leaves the rows of the other incidents
\* (and their order) and the picklists as they were, and raises nothing.
C3_DeleteIncidentCascades ==
    [][lastOp'.op = "delete_incident" =>
          /\ err' = NoError
          /\ lastOp'.id \notin DOMAIN incidents'
          /\ \A k \in 1..Len(incident_units') :
                 incident_units'[k].incident_id # lastOp'.id
          /\ \A k \in 1..Len(notes') : notes'[k].incident_id # lastOp'.id
          /\ incidents' = [i \in DOMAIN incidents \ {lastOp'.id} |-> incidents[i]]
          /\ incident_units' =
                 SelectSeq(incident_units,
                           LAMBDA r : r.incident_id # lastOp'.id)
          /\ notes' = SelectSeq(notes, LAMBDA r : r.incident_id # lastOp'.id)
          /\ UNCHANGED <<locations, units, incident_types>>]_vars

\* delete_incident(1) returned; incident 2 is still there with its note and
\* its assignments.
C3_Witness ==
    /\ lastOp.op = "delete_incident"
    /\ lastOp.id = 1
    /\ 1 \notin DOMAIN incidents
    /\ 2 \in DOMAIN incidents
    /\ \E k \in 1..Len(notes) : notes[k].incident_id = 2
    /\ \E k \in 1..Len(incident_units) : incident_units[k].incident_id = 2

\* C4: a set_cleared(id, cleared, ts) step changes nothing but the is_cleared
\* and cleared_at fields of incident id: its other six fields, every other
\* incident, the assignments, the notes and the picklists are as before.
C4_SetClearedFrame ==
    [][lastOp'.op = "set_cleared" =>
          /\ UNCHANGED <<locations, units, incident_types, incident_units, notes>>
          /\ DOMAIN incidents' = DOMAIN incidents
          /\ \A i \in DOMAIN incidents :
                IF i = lastOp'.id
                THEN /\ incidents'[i].location_id = incidents[i].location_id
                     /\ incidents'[i].type = incidents[i].type
                     /\ incidents'[i].reported_at = incidents[i].reported_at
                     /\ incidents'[i].dispatched_at = incidents[i].dispatched_at
                     /\ incidents'[i].arrived_at = incidents[i].arrived_at
                     /\ incidents'[i].disposition = incidents[i].disposition
                ELSE incidents'[i] = incidents[i]]_vars

\* set_cleared(id, True, ts) returned on an incident that has assignments and
\* a note: the flag and the stamp are set, the other fields are those of the
\* create.
C4_Witness ==
    /\ lastOp.op = "set_cleared"
    /\ lastOp.cleared
    /\ lastOp.cleared_at = <<2, 1>>
    /\ lastOp.id \in DOMAIN incidents
    /\ incidents[lastOp.id].is_cleared = 1
    /\ incidents[lastOp.id].cleared_at = <<2, 1>>
    /\ incidents[lastOp.id].dispatched_at = <<1, 1>>
    /\ incidents[lastOp.id].arrived_at = <<>>
    /\ \E k \in 1..Len(notes) : notes[k].incident_id = lastOp.id
    /\ \E k \in 1..Len(incident_units) :
          incident_units[k].incident_id = lastOp.id

\* ---------------------------------------------------------------- SpecBoard
\* The board query over incidents that differ in reported_at and is_cleared,
\* under the date filters.
InitBoard ==
    /\ locations = (1 :> [name |-> <<"a">>]) @@ (2 :> [name |-> <<"b">>])
    /\ units = (1 :> [name |-> <<"a">>, category |-> <<>>])
               @@ (2 :> [name |-> <<"b">>, category |-> <<>>])
    /\ incident_types = (1 :> [name |-> <<"a">>])
    /\ incidents = <<>>
    /\ incident_units = <<>>
    /\ notes = <<>>
    /\ in_transaction = FALSE
    /\ table = "none"
    /\ lastOp = [op |-> "init"]
    /\ err = NoError
    /\ ret = None
    /\ NoApp

BoardCreateIncident ==
    \E r \in Stamps \cup {NotADate}, c \in {0, 1} :
        /\ NextRowId(DOMAIN incidents) <= MaxBoardIncId
        /\ create_incident(None, <<"a">>, r, <<>>, <<>>, <<>>, <<>>, c,
                           None, <<>>)
        /\ UNCHANGED ui

BoardFetch ==
    \E start \in {<<>>} \cup Dates, end \in {<<>>} \cup Dates :
        fetch_board(None, <<>>, start, end)
        /\ UNCHANGED ui

NextBoard ==
    \/ BoardCreateIncident
    \/ BoardFetch

SpecBoard == InitBoard /\ [][NextBoard]_vars

\* ---------------------------------------------------------------- SpecFilter
\* The board query over incidents that differ in location, type, day and
\* number of assigned units, under every combination of the filters.
\* <<reported_at, primary_unit_id, backup_unit_ids>>: no unit, one unit and
\* several units, on either day.
Reports ==
    {<<<<1, 1>>, None, <<>>>>, <<<<2, 0>>, Some(1), <<>>>>,
     <<<<2, 0>>, Some(1), <<2, 1>>>>, <<<<1, 1>>, Some(2), <<1>>>>}

FilterCreateIncident ==
    \E loc \in {None, Some(1)}, t \in TypeNames, a \in Reports :
        /\ NextRowId(DOMAIN incidents) <= MaxFilterIncId
        /\ create_incident(loc, t, a[1], <<>>, <<>>, <<>>, <<>>, 0, a[2], a[3])
        /\ UNCHANGED ui

FilterFetch ==
    \E loc \in {None, Some(1)}, t \in {<<>>, <<"a">>},
       d \in {<<>>, <<2>>} :
        fetch_board(loc, t, d, d)
        /\ UNCHANGED ui

\* A location that exists and that no incident carries.
FilterFetchUnused == fetch_board(Some(2), <<>>, <<>>, <<>>)
    /\ UNCHANGED ui

NextFilter ==
    \/ FilterCreateIncident
    \/ FilterFetch
    \/ FilterFetchUnused

SpecFilter == InitBoard /\ [][NextFilter]_vars

\* ---------------------------------------------------------------- board claims
\* The ids of the rows fetch_board returned.
ReturnedIds == {ret[k].id : k \in 1..Len(ret)}

\* C1: in what fetch_board returns, every row with is_cleared = 0 precedes
\* every row with is_cleared = 1, and of two rows with the same is_cleared the
\* earlier one has the reported_at that is not smaller.
C1_BoardOrder ==
    lastOp.op = "fetch_board" =>
        \A j, k \in 1..Len(ret) :
            j < k =>
                /\ ret[j].incident.is_cleared <= ret[k].incident.is_cleared
                /\ ret[j].incident.is_cleared = ret[k].incident.is_cleared
                      => ~TextLess(ret[j].incident.reported_at,
                                   ret[k].incident.reported_at)

\* The unfiltered board of A (active, day 1 late), B (cleared, day 2) and
\* C (active, day 1 early), created in this order, is A, C, B.
C1_Witness ==
    /\ lastOp.op = "fetch_board"
    /\ lastOp.start_date = <<>>
    /\ lastOp.end_date = <<>>
    /\ Len(ret) = 3
    /\ <<ret[1].id, ret[2].id, ret[3].id>> = <<1, 3, 2>>
    /\ incidents[1].is_cleared = 0 /\ incidents[1].reported_at = <<1, 1>>
    /\ incidents[2].is_cleared = 1 /\ incidents[2].reported_at = <<2, 0>>
    /\ incidents[3].is_cleared = 0 /\ incidents[3].reported_at = <<1, 0>>

\* The incident passes every filter that was supplied; the dates are those of
\* its "YYYY-MM-DD HH:MM" reported_at.
PassesFilters(i, f) ==
    /\ f.loc_filter # None => incidents[i].location_id = f.loc_filter
    /\ f.type_filter # <<>> => incidents[i].type = f.type_filter
    /\ f.start_date # <<>> => incidents[i].reported_at[1] >= f.start_date[1]
    /\ f.end_date # <<>> => incidents[i].reported_at[1] <= f.end_date[1]

\* C8: fetch_board raises nothing and returns the incidents that pass every
\* supplied filter, all of them and no other, each in exactly one row however
\* many units are assigned to it.
C8_BoardFilters ==
    lastOp.op = "fetch_board" =>
        /\ err = NoError
        /\ ReturnedIds = {i \in DOMAIN incidents : PassesFilters(i, lastOp)}
        /\ \A j, k \in 1..Len(ret) : ret[j].id = ret[k].id => j = k

\* Location 1, type "a" and day 2 were asked for: of the two incidents the
\* one that has a primary and two backups is returned, in one row.
C8_Witness ==
    /\ lastOp.op = "fetch_board"
    /\ lastOp.loc_filter = Some(1)
    /\ lastOp.type_filter = <<"a">>
    /\ lastOp.start_date = <<2>>
    /\ Cardinality(DOMAIN incidents) = 2
    /\ Len(ret) = 1
    /\ ret[1].primary_units = Some(<<<<"a">>>>)
    /\ ret[1].backup_units = Some(<<<<"b">>, <<"a">>>>)

\* The day of a reported_at text, when it is a date-time text.
IsStamp(t) == Len(t) = 2 /\ t[1] >= 1

\* C9: under date bounds (either may be omitted) fetch_board returns an
\* incident exactly when the day of its reported_at lies within the bounds,
\* both included, whatever its time of day; a reported_at that is no date
\* matches no bound.
C9_DateFilter ==
    lastOp.op = "fetch_board" =>
        \A i \in DOMAIN incidents :
            i \in ReturnedIds <=>
                LET r == incidents[i].reported_at
                IN  /\ lastOp.start_date # <<>> =>
                           (IsStamp(r) /\ lastOp.start_date[1] <= r[1])
                    /\ lastOp.end_date # <<>> =>
                           (IsStamp(r) /\ r[1] <= lastOp.end_date[1])

\* startDate = endDate = day 1: the incidents reported early and late on
\* day 1 are both returned, the one of day 2 is not.
C9_Witness ==
    /\ lastOp.op = "fetch_board"
    /\ lastOp.start_date = <<1>>
    /\ lastOp.end_date = <<1>>
    /\ Len(ret) = 2
    /\ {ret[1].incident.reported_at, ret[2].incident.reported_at}
           = {<<1, 0>>, <<1, 1>>}
    /\ \E i \in DOMAIN incidents : incidents[i].reported_at = <<2, 0>>

\* ---------------------------------------------------------------- SpecStore
\* Every store operation that touches a reference: incidents with their
\* assignments and notes are created, updated, cleared and deleted while the
\* location and the units they name are deleted under them.  Location 2 and
\* unit 3 are ids that no row has.
StoreIncIds == 1..MaxStoreIncId

\* <<primary_unit_id, backup_unit_ids>>
StoreAssignArgs ==
    {<<None, <<>>>>, <<Some(1), <<2, 2>>>>, <<Some(2), <<1, 3>>>>,
     <<Some(3), <<>>>>}

StoreCreateIncident ==
    \E loc \in {None, Some(1), Some(2)}, a \in StoreAssignArgs :
        /\ NextRowId(DOMAIN incidents) <= MaxStoreIncId
        /\ create_incident(loc, <<"a">>, <<1, 0>>, <<>>, <<>>, <<>>, <<>>, 0,
                           a[1], a[2])
        /\ UNCHANGED ui

StoreUpdateIncident ==
    \E id \in StoreIncIds, loc \in {None, Some(1), Some(2)},
       a \in StoreAssignArgs :
        update_incident(id, loc, <<"a">>, <<1, 0>>, <<>>, <<>>, <<>>, <<>>, 0,
                        a[1], a[2])
        /\ UNCHANGED ui

StoreSetCleared ==
    \E id \in StoreIncIds : set_cleared(id, TRUE, <<2, 1>>)
        /\ UNCHANGED ui

StoreDeleteIncident == \E id \in StoreIncIds : delete_incident(id)
    /\ UNCHANGED ui

StoreAddNote ==
    \E id \in StoreIncIds :
        /\ Len(notes) < MaxNotes
        /\ add_note(id, <<1, 0>>, <<"n">>)
        /\ UNCHANGED ui

StoreDeleteLocation == delete_location(1)
    /\ UNCHANGED ui

StoreDeleteUnit == \E id \in {1, 2} : delete_unit(id)
    /\ UNCHANGED ui

NextStore ==
    \/ StoreCreateIncident
    \/ StoreUpdateIncident
    \/ StoreSetCleared
    \/ StoreDeleteIncident
    \/ StoreAddNote
    \/ StoreDeleteLocation
    \/ StoreDeleteUnit

SpecStore == Init /\ [][NextStore]_vars

\* ---------------------------------------------------------------- store claims
\* The rows of incident_units that belong to incident i with the given role.
RowsOf(i, role) ==
    {k \in 1..Len(incident_units) :
        incident_units[k].incident_id = i /\ incident_units[k].role = role}

\* C11: in every state reached by create_incident, update_incident,
\* set_cleared and the deletes, whether they returned or raised, every
\* assignment row has role primary or backup and no incident has more than one
\* row with role primary.
C11_AtMostOnePrimary ==
    /\ \A k \in 1..Len(incident_units) :
          incident_units[k].role \in {"primary", "backup"}
    /\ \A k \in 1..Len(incident_units) :
          Cardinality(RowsOf(incident_units[k].incident_id, "primary")) <= 1

\* update_incident returned on an incident: it has one primary row and two
\* backup rows (of the same unit).
C11_Witness ==
    /\ lastOp.op = "update_incident"
    /\ err = NoError
    /\ lastOp.id \in DOMAIN incidents
    /\ Cardinality(RowsOf(lastOp.id, "primary")) = 1
    /\ Cardinality(RowsOf(lastOp.id, "backup")) = 2

\* C20: in every state, after calls that returned and calls that raised,
\* every assignment row names an existing incident and an existing unit,
\* every note names an existing incident, and every incident's location_id is
\* NULL or the id of an existing location.
C20_ReferentialIntegrity ==
    /\ \A k \in 1..Len(incident_units) :
          /\ incident_units[k].incident_id \in DOMAIN incidents
          /\ incident_units[k].unit_id \in DOMAIN units
    /\ \A k \in 1..Len(notes) : notes[k].incident_id \in DOMAIN incidents
    /\ \A i \in DOMAIN incidents :
          \/ incidents[i].location_id = None
          \/ incidents[i].location_id[1] \in DOMAIN locations

\* delete_unit raised on a unit that an assignment names, in a state where the
\* incident also has a location and a note; the unit is still there.
C20_Witness ==
    /\ lastOp.op = "delete_unit"
    /\ err = IntegrityError
    /\ lastOp.id \in DOMAIN units
    /\ \E k \in 1..Len(incident_units) : incident_units[k].unit_id = lastOp.id
    /\ \E i \in DOMAIN incidents : incidents[i].location_id = Some(1)
    /\ notes # <<>>

\* An incident is Cleared when its flag is set, Active otherwise; cleared_at
\* plays no part.
Cleared(row) == row.is_cleared = 1
Active(row) == row.is_cleared = 0

\* Incident i is in both states of the step, Cleared before and Active after.
Reopened(i) ==
    /\ i \in DOMAIN incidents
    /\ i \in DOMAIN incidents'
    /\ Cleared(incidents[i])
    /\ Active(incidents'[i])

\* C12 as stated: a step that takes an incident from Cleared to Active is an
\* update_incident; set_cleared never is.
C12_OnlyUpdateReopens ==
    [][\A i \in IncIds : Reopened(i) => lastOp'.op = "update_incident"]_vars

\* C12 amended: a step that takes incident i from Cleared to Active is either
\* update_incident(i, ...) with the flag off or set_cleared(i, False, ...);
\* set_cleared(i, True, ...), which is what Mark Cleared calls, leaves i
\* Cleared whatever it was; and every incident is Active or Cleared.
C12_ReopenByUpdateOrSetClearedFalse ==
    [][/\ \A i \in IncIds :
             Reopened(i) =>
                /\ lastOp'.id = i
                /\ \/ lastOp'.op = "update_incident"
                   \/ lastOp'.op = "set_cleared" /\ ~lastOp'.cleared
       /\ (lastOp'.op = "set_cleared" /\ lastOp'.cleared
              /\ lastOp'.id \in DOMAIN incidents)
          => Cleared(incidents'[lastOp'.id])
       /\ \A i \in DOMAIN incidents' :
             Active(incidents'[i]) \/ Cleared(incidents'[i])]_vars

\* set_cleared(id, False, "") returned on an incident that is now Active and
\* carries no cleared_at, while the other incident is Cleared.
C12_Witness ==
    /\ lastOp.op = "set_cleared"
    /\ ~lastOp.cleared
    /\ lastOp.id \in DOMAIN incidents
    /\ Active(incidents[lastOp.id])
    /\ incidents[lastOp.id].cleared_at = <<>>
    /\ \E i \in DOMAIN incidents : Cleared(incidents[i])

\* ---------------------------------------------------------------- SpecNotes
\* Notes of several incidents, added out of timestamp order and listed, while
\* the incidents are created, updated, cleared and deleted.
\* <<ts, body>> of the notes the callers add.
NoteArgs == {<<<<1, 1>>, <<"n">>>>, <<<<1, 0>>, <<"m">>>>}

NotesCreateIncident ==
    /\ NextRowId(DOMAIN incidents) <= MaxIncId
    /\ create_incident(Some(1), <<"a">>, <<1, 0>>, <<>>, <<>>, <<>>, <<>>, 0,
                       None, <<>>)
    /\ UNCHANGED ui

NotesUpdateIncident ==
    \E id \in IncIds :
        update_incident(id, Some(1), <<"a">>, <<1, 0>>, <<>>, <<>>, <<>>,
                        <<>>, 0, None, <<>>)
        /\ UNCHANGED ui

NotesSetCleared == \E id \in IncIds : set_cleared(id, FALSE, <<>>)
    /\ UNCHANGED ui

NotesDeleteIncident == \E id \in IncIds : delete_incident(id)
    /\ UNCHANGED ui

NotesAddNote ==
    \E id \in IncIds, a \in NoteArgs :
        /\ Len(notes) < MaxListedNotes
        /\ add_note(id, a[1], a[2])
        /\ UNCHANGED ui

NotesListNotes == \E id \in IncIds : list_notes(id)
    /\ UNCHANGED ui

NextNotes ==
    \/ NotesCreateIncident
    \/ NotesUpdateIncident
    \/ NotesSetCleared
    \/ NotesDeleteIncident
    \/ NotesAddNote
    \/ NotesListNotes

SpecNotes == Init /\ [][NextNotes]_vars

\* ---------------------------------------------------------------- notes claims
\* How many rows of s equal r.
Count(s, r) == Cardinality({k \in 1..Len(s) : s[k] = r})

\* C13: list_notes(id) returns rows of incident id only, each note that the
\* table holds for id as many times as the table holds it, and no row before
\* a row whose ts is smaller.
C13_ListNotes ==
    lastOp.op = "list_notes" =>
        /\ \A k \in 1..Len(ret) : ret[k].incident_id = lastOp.id
        /\ \A k \in 1..Len(notes) :
              notes[k].incident_id = lastOp.id
                 => Count(ret, notes[k]) = Count(notes, notes[k])
        /\ \A k \in 1..Len(ret) : Count(ret, ret[k]) = Count(notes, ret[k])
        /\ \A j, k \in 1..Len(ret) :
              j < k => ~TextLess(ret[k].ts, ret[j].ts)

\* Incident 1 got the note of the later time first and the note of the earlier
\* time second, incident 2 has a note too: list_notes(1) returns the two notes
\* of incident 1, the earlier one first.
C13_Witness ==
    /\ lastOp.op = "list_notes"
    /\ lastOp.id = 1
    /\ Len(notes) = 3
    /\ \E k \in 1..3 : notes[k].incident_id = 2
    /\ NotesOf(notes, 1) = <<[incident_id |-> 1, ts |-> <<1, 1>>, body |-> <<"n">>],
                             [incident_id |-> 1, ts |-> <<1, 0>>, body |-> <<"m">>]>>
    /\ ret = <<[incident_id |-> 1, ts |-> <<1, 0>>, body |-> <<"m">>],
               [incident_id |-> 1, ts |-> <<1, 1>>, body |-> <<"n">>]>>

\* The notes of s whose incident is not in the set gone.
RECURSIVE NotesKept(_, _)
NotesKept(s, gone) ==
    IF s = <<>> THEN <<>>
    ELSE (IF Head(s).incident_id \in gone THEN <<>> ELSE <<Head(s)>>)
         \o NotesKept(Tail(s), gone)

\* C14: in every step, the notes of the incidents that the step does not
\* delete are after the step what they were before it - same incident, ts and
\* body, same order - and only new notes follow them; a note leaves the table
\* only in the step that deletes its incident.
C14_NotesAppendOnly ==
    [][LET gone == DOMAIN incidents \ DOMAIN incidents'
           kept == NotesKept(notes, gone)
       IN  /\ Len(kept) <= Len(notes')
           /\ SubSeq(notes', 1, Len(kept)) = kept
           /\ gone # {} => lastOp'.op = "delete_incident"]_vars

\* update_incident returned on incident 1 while the table holds two different
\* notes of incident 1 and a note of incident 2.
C14_Witness ==
    /\ lastOp.op = "update_incident"
    /\ lastOp.id = 1
    /\ err = NoError
    /\ Len(NotesOf(notes, 1)) = 2
    /\ NotesOf(notes, 1)[1] # NotesOf(notes, 1)[2]
    /\ Len(NotesOf(notes, 2)) = 1

\* ---------------------------------------------------------------- atomicity
\* C15 as stated: a create_incident / update_incident call that returns has
\* committed (no transaction is left open), and one that raises leaves every
\* table as it was before the call, so that nothing of it is there for a later
\* commit to store.
C15_CallsAreAtomic ==
    [][lastOp'.op \in {"create_incident", "update_incident"} =>
          IF err' = NoError
          THEN in_transaction' = FALSE
          ELSE tables' = tables]_vars

\* ---------------------------------------------------------------- name claims
\* No two rows of tbl have names that are equal once stripped.
UniqueNames(tbl) ==
    \A j, k \in DOMAIN tbl :
        j # k => strip(tbl[j].name) # strip(tbl[k].name)

\* C17: in every state reached by add, rename / update and delete on a
\* picklist, calls that raised included, no two rows of locations, of units or
\* of incident_types have the same name, names being compared stripped.
C17_UniqueNames ==
    /\ UniqueNames(locations)
    /\ UniqueNames(units)
    /\ UniqueNames(incident_types)

\* add_incident_type(" a") returned on a table that holds "a" and "b": it
\* still holds these two rows.
C17_Witness ==
    /\ lastOp.op = "add_incident_type"
    /\ lastOp.name = <<" ", "a">>
    /\ Cardinality(DOMAIN incident_types) = 2
    /\ Carries(incident_types, <<"a">>)
    /\ Carries(incident_types, <<"b">>)

\* ---------------------------------------------------------------- manager windows
\* class ListManager: the Add, Edit and Delete buttons of the window that is
\* open on `table`.  The window's own list shows the rows of the table as of
\* its last refresh(); every handler that reaches the end refreshes it and one
\* that raises has changed no row, so the row the user selects is a row of
\* the table.  No handler of the window touches the main window.
\* ask_for_text gives None when the dialog is cancelled and Some(text) when it
\* is accepted; None and "" are both false.
TruthyText(o) == o # None /\ o[1] # <<>>

CurrentTable ==
    IF table = "locations" THEN locations
    ELSE IF table = "units" THEN units
    ELSE incident_types

\* The handler returns before it calls the store.
Ignored(name) ==
    /\ UNCHANGED <<tables, in_transaction, table, lastOp, err, ret>>
    /\ UNCHANGED <<board, filters, form>>
    /\ handler' = name

\* ListManager.add; name and cat are what the dialogs give.
manager_add(name, cat) ==
    IF ~TruthyText(name) THEN Ignored("ListManager.add")
    ELSE /\ IF table = "units"
            THEN add_unit(name[1], IF TruthyText(cat) THEN cat[1] ELSE <<>>)
            ELSE IF table = "locations" THEN add_location(name[1])
            ELSE add_incident_type(name[1])
         /\ UNCHANGED <<board, filters, form>>
         /\ handler' = "ListManager.add"

\* ListManager.edit; sel is the selected row, None when nothing is selected.
manager_edit(sel, new_name, new_cat) ==
    IF sel = None \/ new_name = None \/ (table = "units" /\ new_cat = None)
    THEN Ignored("ListManager.edit")
    ELSE /\ IF table = "units"
            THEN update_unit(sel[1], new_name[1], new_cat[1])
            ELSE IF table = "locations" THEN rename_location(sel[1], new_name[1])
            ELSE rename_incident_type(sel[1], new_name[1])
         /\ UNCHANGED <<board, filters, form>>
         /\ handler' = "ListManager.edit"

\* ListManager.delete; yes is the answer to "Delete the selected item?".
manager_delete(sel, yes) ==
    IF sel = None \/ ~yes THEN Ignored("ListManager.delete")
    ELSE /\ IF table = "units" THEN delete_unit(sel[1])
            ELSE IF table = "locations" THEN delete_location(sel[1])
            ELSE delete_incident_type(sel[1])
         /\ UNCHANGED <<board, filters, form>>
         /\ handler' = "ListManager.delete"

\* ---------------------------------------------------------------- SpecManager
\* A manager window on a picklist that starts empty; the user types names
\* with and without blanks, accepts a dialog empty, or cancels it.
Typed == {None, Some(<<>>), Some(<<" ">>), Some(<<"a">>), Some(<<"b", " ">>)}
TypedCategories == {None, Some(<<>>), Some(<<"c">>)}

Selections == {None} \cup {Some(i) : i \in DOMAIN CurrentTable}

ManagerAdd ==
    \E name \in Typed, cat \in TypedCategories :
        /\ TruthyText(name) => Room(CurrentTable, name[1])
        /\ table # "units" => cat = None
        /\ manager_add(name, cat)

ManagerEdit ==
    \E sel \in Selections, new_name \in Typed, new_cat \in TypedCategories :
        /\ table # "units" => new_cat = None
        /\ manager_edit(sel, new_name, new_cat)

ManagerDelete ==
    \E sel \in Selections, yes \in BOOLEAN : manager_delete(sel, yes)

NextManager ==
    \/ ManagerAdd
    \/ ManagerEdit
    \/ ManagerDelete

SpecManager == InitPicklist /\ [][NextManager]_vars

\* C16 as stated: in every state reached through the Add, Edit and Delete
\* buttons of the manager windows, every location, unit and incident type has
\* a name that is not the empty text.
C16_NamesNonEmpty ==
    /\ \A k \in DOMAIN locations : locations[k].name # <<>>
    /\ \A k \in DOMAIN units : units[k].name # <<>>
    /\ \A k \in DOMAIN incident_types : incident_types[k].name # <<>>

\* ---------------------------------------------------------------- main window
\* class App: the board, the filter bar and the buttons beside the board.
\* A blank inside a text of fields (a blank typed into a date or time entry).
Blank == -1

RECURSIVE lstripFields(_)
lstripFields(t) ==
    IF t # <<>> /\ Head(t) = Blank THEN lstripFields(Tail(t)) ELSE t

RECURSIVE rstripFields(_)
rstripFields(t) ==
    IF t # <<>> /\ t[Len(t)] = Blank
    THEN rstripFields(SubSeq(t, 1, Len(t) - 1)) ELSE t

\* str.strip() on a text of fields.
StripFields(t) == rstripFields(lstripFields(t))

\* The characters of the names, in the order of their codes.
Chars == <<" ", "A", "O", "a", "b", "c", "e", "h", "l", "m", "n", "r", "t", "x">>

Ord(c) == CHOOSE i \in 1..Len(Chars) : Chars[i] = c

\* ORDER BY name (BINARY collation) on texts of characters.
RECURSIVE NameLess(_, _)
NameLess(a, b) ==
    IF b = <<>> THEN FALSE
    ELSE IF a = <<>> THEN TRUE
    ELSE IF Ord(Head(a)) < Ord(Head(b)) THEN TRUE
    ELSE IF Ord(Head(a)) > Ord(Head(b)) THEN FALSE
    ELSE NameLess(Tail(a), Tail(b))

\* SELECT * FROM <tbl> ORDER BY name: the ids of ids, by the name of their row.
RECURSIVE ByName(_, _)
ByName(tbl, ids) ==
    IF ids = {} THEN <<>>
    ELSE LET first == CHOOSE x \in ids :
                          \A y \in ids \ {x} : NameLess(tbl[x].name, tbl[y].name)
         IN  <<first>> \o ByName(tbl, ids \ {first})

\* list_locations / list_units / list_incident_types: ids, then names.
ListIds(tbl) == ByName(tbl, DOMAIN tbl)

ListNames(tbl) == [k \in 1..Len(ListIds(tbl)) |-> tbl[ListIds(tbl)[k]].name]

\* for r in list_locations(): if r["name"] == loc_name: loc_id = r["id"]; break
LocationIdByName(loc_name) ==
    LET hits == SelectSeq(ListIds(locations),
                          LAMBDA k : locations[k].name = loc_name)
    IN  IF hits = <<>> THEN None ELSE Some(Head(hits))

All == <<"A", "l", "l">>

\* date.today() when the window was built, and what now_dt() can give later.
Today == <<1>>
Nows == {<<1, 0>>, <<2, 0>>}

\* App._build_filters: today in both date entries, "All" in both comboboxes.
DefaultFilters ==
    [from_var |-> Today, to_var |-> Today, loc_filter_var |-> All,
     type_filter_var |-> All]

\* App._filters: what the filter bar f asks fetch_board for.  None and "" are
\* both <<>> for the three text arguments.
FilterArgs(f) ==
    [loc_id |-> IF f.loc_filter_var # <<>> /\ f.loc_filter_var # All
                THEN LocationIdByName(f.loc_filter_var) ELSE None,
     tname |-> IF f.type_filter_var = All THEN <<>> ELSE f.type_filter_var,
     start |-> StripFields(f.from_var),
     end |-> StripFields(f.to_var)]

\* A GROUP_CONCAT column as Python sees it: false when NULL or "".
TruthyConcat(x) == x # None /\ x[1] # <<<<>>>>

\* The tree item refresh_board inserts for a row r of fetch_board; units is
\* ", ".join of the two aggregates that are not false.
BoardItem(r) ==
    [iid |-> r.id,
     reported |-> r.incident.reported_at,
     dispatched |-> r.incident.dispatched_at,
     arrived |-> r.incident.arrived_at,
     cleared |-> r.incident.cleared_at,
     type |-> r.incident.type,
     location |-> IF r.location_name = None THEN <<>> ELSE r.location_name[1],
     units |-> (IF TruthyConcat(r.primary_units)
                THEN <<r.primary_units[1]>> ELSE <<>>)
               \o (IF TruthyConcat(r.backup_units)
                   THEN <<r.backup_units[1]>> ELSE <<>>),
     status |-> IF r.incident.is_cleared # 0 THEN "Cleared" ELSE "Active"]

\* App.refresh_board under the filter bar f: the items of the tree afterwards.
BoardFor(f) ==
    LET a == FilterArgs(f)
        fetched == {FetchBoard(a.loc_id, a.tname, a.start, a.end)}
    IN  CHOOSE items \in {[k \in 1..Len(rows) |-> BoardItem(rows[k])] :
                              rows \in fetched} : TRUE

\* The store is not called.
StoreUntouched == UNCHANGED <<tables, in_transaction, lastOp, err, ret>>

\* The Apply button.
refresh_board ==
    /\ board' = BoardFor(filters)
    /\ StoreUntouched
    /\ UNCHANGED <<table, filters, form>>
    /\ handler' = "App.refresh_board"

\* The Reset button.
reset_filters ==
    /\ filters' = DefaultFilters
    /\ board' = BoardFor(DefaultFilters)
    /\ StoreUntouched
    /\ UNCHANGED <<table, form>>
    /\ handler' = "App.reset_filters"

\* The iid of the selected item of the board, None when nothing is selected.
BoardSelections == {None} \cup {Some(board[k].iid) : k \in 1..Len(board)}

\* The Mark Cleared button.
mark_cleared(sel, now) ==
    IF ~Truthy(sel)
    THEN StoreUntouched /\ UNCHANGED <<table, board, filters, form>>
         /\ handler' = "App.mark_cleared"
    ELSE /\ set_cleared(sel[1], TRUE, now)
         /\ UNCHANGED <<filters, form>>
         /\ board' = BoardFor(filters)'
         /\ handler' = "App.mark_cleared"

\* The Delete button and the Delete key; yes is the answer to the question.
delete_selected(sel, yes) ==
    IF ~Truthy(sel) \/ ~yes
    THEN StoreUntouched /\ UNCHANGED <<table, board, filters, form>>
         /\ handler' = "App.delete_selected"
    ELSE /\ delete_incident(sel[1])
         /\ UNCHANGED <<filters, form>>
         /\ board' = BoardFor(filters)'
         /\ handler' = "App.delete_selected"

\* ---------------------------------------------------------------- incident form
\* class IncidentForm.  The form keeps what the three lists held when it was
\* built: the names offered by the location and type comboboxes, the unit
\* names of the primary combobox and the backup listbox, and unit_map from
\* unit name to unit id.
Other == <<"O", "t", "h", "e", "r">>

Range(q) == {q[k] : k \in 1..Len(q)}

\* IncidentForm.__init__ without inc_id.
NewForm(now) ==
    [inc_id |-> None,
     loc_var |-> <<>>, type_var |-> <<>>,
     reported_var |-> now, dispatched_var |-> <<>>, arrived_var |-> <<>>,
     cleared_var |-> <<>>, disp_var |-> <<>>, cleared_var_bool |-> FALSE,
     primary_var |-> <<>>, backup_sel |-> {},
     loc_values |-> ListNames(locations),
     type_values |-> ListNames(incident_types),
     unit_names |-> ListNames(units),
     unit_map |-> [n \in Range(ListNames(units)) |->
                      CHOOSE k \in DOMAIN units : units[k].name = n]]

\* next((r["name"] for r in rows if r["id"] == id), None), and the `if name:`
\* that follows it: the name of row id when there is one that is not "".
NameOrKeep(tbl, id, old) ==
    IF id \in DOMAIN tbl /\ tbl[id].name # <<>> THEN tbl[id].name ELSE old

\* IncidentForm._load_existing on the form f just built for incident inc_id.
LoadExisting(f, inc_id) ==
    LET inc == incidents[inc_id]
        primary == GetAssignments(inc_id)[1]
        backups == GetAssignments(inc_id)[2]
        names == {units[u].name : u \in Range(backups) \cap DOMAIN units}
    IN  [f EXCEPT
            !.inc_id = Some(inc_id),
            !.loc_var = IF Truthy(inc.location_id)
                        THEN NameOrKeep(locations, inc.location_id[1], @)
                        ELSE @,
            !.type_var = inc.type,
            !.reported_var = inc.reported_at,
            !.dispatched_var = inc.dispatched_at,
            !.arrived_var = inc.arrived_at,
            !.cleared_var = inc.cleared_at,
            !.disp_var = inc.disposition,
            !.cleared_var_bool = (inc.is_cleared # 0),
            !.primary_var = IF Truthy(primary)
                            THEN NameOrKeep(units, primary[1], @) ELSE @,
            !.backup_sel = {i \in 1..Len(f.unit_names) : f.unit_names[i] \in names}]

\* App.new_incident: a form for a new incident opens.
new_incident(now) ==
    /\ form' = NewForm(now)
    /\ StoreUntouched
    /\ UNCHANGED <<table, board, filters>>
    /\ handler' = "App.new_incident"

\* App.edit_selected: a form opens on the selected incident.
edit_selected(sel, now) ==
    /\ form' = IF Truthy(sel) THEN LoadExisting(NewForm(now), sel[1]) ELSE form
    /\ StoreUntouched
    /\ UNCHANGED <<table, board, filters>>
    /\ handler' = "App.edit_selected"

\* cleared_flag = 1 if self.cleared_var_bool.get() or bool(clr) else 0
ClearedFlagAsChecked(checked, clr) == IF checked THEN 1 ELSE 0

ClearedFlag(checked, clr) == IF checked \/ clr # <<>> THEN 1 ELSE 0

\* backup_ids: the ids of the selected names, in the order of the listbox.
BackupIds(f) ==
    LET sel == Ascending(f.backup_sel)
        names == [k \in 1..Len(sel) |-> f.unit_names[sel[k]]]
        known == SelectSeq(names, LAMBDA n : n \in DOMAIN f.unit_map)
    IN  [k \in 1..Len(known) |-> f.unit_map[known[k]]]

\* IncidentForm.save: the Save button.  When the store call raises, the
\* exception leaves the handler: the board is not redrawn, the form stays.
save(now) ==
    LET loc_name == strip(form.loc_var)
        loc_id == IF loc_name # <<>> THEN LocationIdByName(loc_name) ELSE None
        t_name == IF strip(form.type_var) # <<>> THEN strip(form.type_var)
                  ELSE Other
        reported == IF StripFields(form.reported_var) # <<>>
                    THEN StripFields(form.reported_var) ELSE now
        disp == StripFields(form.dispatched_var)
        arr == StripFields(form.arrived_var)
        clr == StripFields(form.cleared_var)
        dispn == strip(form.disp_var)
        cleared_flag == ClearedFlag(form.cleared_var_bool, clr)
        primary_name == strip(form.primary_var)
        primary_id == IF primary_name \in DOMAIN form.unit_map
                      THEN Some(form.unit_map[primary_name]) ELSE None
        backup_ids == BackupIds(form)
    IN  /\ IF Truthy(form.inc_id)
           THEN update_incident(form.inc_id[1], loc_id, t_name, reported, disp,
                                arr, clr, dispn, cleared_flag, primary_id,
                                backup_ids)
           ELSE create_incident(loc_id, t_name, reported, disp, arr, clr, dispn,
                                cleared_flag, primary_id, backup_ids)
        /\ UNCHANGED filters
        /\ IF err' = NoError
           THEN board' = BoardFor(filters)' /\ form' = NoForm
           ELSE UNCHANGED <<board, form>>
        /\ handler' = "IncidentForm.save"

\* ---------------------------------------------------------------- SpecApp
\* The windows over a store that holds one location, two units and one type:
\* the main window with its board and filter bar, one incident form at a time,
\* and the Locations manager window.
InitApp ==
    /\ locations = (1 :> [name |-> <<"a">>])
    /\ units = (1 :> [name |-> <<"a">>, category |-> <<>>])
               @@ (2 :> [name |-> <<"b">>, category |-> <<>>])
    /\ incident_types = (1 :> [name |-> <<"a">>])
    /\ incidents = <<>>
    /\ incident_units = <<>>
    /\ notes = <<>>
    /\ in_transaction = FALSE
    /\ table = "none"
    /\ lastOp = [op |-> "init"]
    /\ err = NoError
    /\ ret = None
    /\ board = <<>>
    /\ filters = DefaultFilters
    /\ form = NoForm
    /\ handler = "none"

\* What the user puts into the form before Save: the location, the Cleared
\* entry, the Mark as Cleared box, the primary unit and the backup rows.  ""
\* for a combobox leaves it as it is (a read-only combobox cannot be emptied).
FormEntries ==
    {[loc_var |-> <<"a">>, cleared_var |-> <<>>, cleared_var_bool |-> FALSE,
      primary_var |-> <<"a">>, backup_sel |-> {2}],
     [loc_var |-> <<>>, cleared_var |-> <<2, 1>>, cleared_var_bool |-> FALSE,
      primary_var |-> <<>>, backup_sel |-> {}],
     [loc_var |-> <<>>, cleared_var |-> <<Blank>>, cleared_var_bool |-> TRUE,
      primary_var |-> <<"b">>, backup_sel |-> {}]}

\* What the user puts into the filter bar.
FilterEntries ==
    {[from_var |-> <<>>, to_var |-> <<>>, loc_filter_var |-> <<"a">>,
      type_filter_var |-> All]}

\* The user edits the filter bar; nothing is redrawn before Apply.
AppEditFilters ==
    \E f \in FilterEntries :
        /\ filters' = f
        /\ StoreUntouched
        /\ UNCHANGED <<table, board, form>>
        /\ handler' = "filter bar"

AppNewIncident ==
    \E now \in Nows :
        /\ form = NoForm
        /\ new_incident(now)

\* The board lists only incidents that exist: each was fetched after the last
\* delete.
AppEditSelected ==
    \E sel \in BoardSelections, now \in {<<1, 0>>} :
        /\ form = NoForm
        /\ edit_selected(sel, now)

\* The user fills the open form.
AppFillForm ==
    \E e \in FormEntries :
        /\ form # NoForm
        /\ e.loc_var \in {<<>>} \cup Range(form.loc_values)
        /\ e.primary_var \in {<<>>} \cup Range(form.unit_names)
        /\ e.backup_sel \subseteq 1..Len(form.unit_names)
        /\ form' = [form EXCEPT
                       !.loc_var = IF e.loc_var = <<>> THEN @ ELSE e.loc_var,
                       !.cleared_var = e.cleared_var,
                       !.cleared_var_bool = e.cleared_var_bool,
                       !.primary_var = IF e.primary_var = <<>> THEN @
                                       ELSE e.primary_var,
                       !.backup_sel = e.backup_sel]
        /\ StoreUntouched
        /\ UNCHANGED <<table, board, filters>>
        /\ handler' = "form"

AppSave ==
    \E now \in {<<1, 0>>} :
        /\ form # NoForm
        /\ form.inc_id = None => NextRowId(DOMAIN incidents) <= MaxAppIncId
        /\ save(now)

AppMarkCleared ==
    \E sel \in BoardSelections, now \in {<<2, 0>>} : mark_cleared(sel, now)

AppDeleteSelected ==
    \E sel \in BoardSelections, yes \in BOOLEAN : delete_selected(sel, yes)

\* The Manage menu opens a manager window; its Close button closes it.
AppManage ==
    \E t \in {"locations"} :
        /\ table = "none"
        /\ table' = t
        /\ StoreUntouched
        /\ UNCHANGED <<board, filters, form>>
        /\ handler' = "Manage"

AppManagerClose ==
    /\ table # "none"
    /\ table' = "none"
    /\ StoreUntouched
    /\ UNCHANGED <<board, filters, form>>
    /\ handler' = "ListManager.destroy"

AppManagerEdit ==
    \E sel \in Selections :
        /\ table # "none"
        /\ manager_edit(sel, Some(<<"c">>), Some(<<>>))

AppManagerDelete ==
    \E sel \in Selections :
        /\ table # "none"
        /\ manager_delete(sel, TRUE)

NextApp ==
    \/ refresh_board
    \/ reset_filters
    \/ AppEditFilters
    \/ AppNewIncident
    \/ AppEditSelected
    \/ AppFillForm
    \/ AppSave
    \/ AppMarkCleared
    \/ AppDeleteSelected
    \/ AppManage
    \/ AppManagerClose
    \/ AppManagerEdit
    \/ AppManagerDelete

SpecApp == InitApp /\ [][NextApp]_vars

\* ---------------------------------------------------------------- window claims
\* The incident a Save step wrote: the one the form edits, or the new one.
SavedId == IF Truthy(form.inc_id) THEN form.inc_id[1] ELSE ret'

Saved ==
    /\ handler' = "IncidentForm.save"
    /\ err' = NoError
    /\ SavedId \in DOMAIN incidents'

\* C18, as stated: a save through the incident form stores the cleared flag
\* as the Mark as Cleared box has it, whether or not the Cleared entry holds a
\* timestamp.
C18_FormStoresFlagAsSet ==
    [][Saved => incidents'[SavedId].is_cleared
                    = (IF form.cleared_var_bool THEN 1 ELSE 0)]_vars

\* C18, amended: a save through the incident form stores the Cleared entry,
\* stripped, as cleared_at, and stores is_cleared = 1 when the box is checked
\* or that entry is not blank, 0 otherwise; so after every step of the windows
\* an incident with a cleared timestamp has is_cleared = 1.
C18_FormCouplesFlagToTimestamp ==
    [][/\ Saved =>
            /\ incidents'[SavedId].cleared_at = StripFields(form.cleared_var)
            /\ incidents'[SavedId].is_cleared
                   = (IF form.cleared_var_bool
                         \/ StripFields(form.cleared_var) # <<>>
                      THEN 1 ELSE 0)
       /\ \A i \in DOMAIN incidents' :
              incidents'[i].cleared_at # <<>> => incidents'[i].is_cleared = 1]_vars

\* A save has just stored an incident that is cleared without a timestamp.
C18_Witness ==
    /\ handler = "IncidentForm.save"
    /\ err = NoError
    /\ \E i \in DOMAIN incidents :
           incidents[i].is_cleared = 1 /\ incidents[i].cleared_at = <<>>

\* C19: after every step of the windows that changes the store (incident
\* save, Mark Cleared, incident delete, add / rename / delete in a manager
\* window) the board shows fetch_board of the new store under the filter bar.
C19_BoardFollowsStore ==
    [][tables' # tables => board' = BoardFor(filters)']_vars

\* ---------------------------------------------------------------- fresh ids
\* C21: a create_incident that returns gives an id no incident had when it
\* was called; the new incident has the assignments passed to the call, the
\* primary (if any) and the backups in the order given, and no others; and it
\* has no notes, also when an incident deleted earlier had the same id.
C21_CreateIsFresh ==
    [][(lastOp'.op = "create_incident" /\ err' = NoError) =>
           /\ ret' \notin DOMAIN incidents
           /\ ret' \in DOMAIN incidents'
           /\ UnitIds(incident_units', ret', "primary")
                  = (IF Truthy(lastOp'.primary) THEN <<lastOp'.primary[1]>>
                     ELSE <<>>)
           /\ UnitIds(incident_units', ret', "backup") = lastOp'.backups
           /\ Len(AssignmentsOf(incident_units', ret'))
                  = Len(UnitIds(incident_units', ret', "primary"))
                    + Len(UnitIds(incident_units', ret', "backup"))
           /\ NotesOf(notes', ret') = <<>>]_vars

\* A create has just returned: the new incident has a primary and two backups
\* and no note.
C21_Witness ==
    /\ lastOp.op = "create_incident"
    /\ err = NoError
    /\ ret \in DOMAIN incidents
    /\ Len(AssignmentsOf(incident_units, ret)) = 3
    /\ NotesOf(notes, ret) = <<>>

\* ---------------------------------------------------------------- SpecForm
\* The incident form next to the Locations and Units manager windows, where
\* the user accepts the Edit dialogs with the text emptied.
FormManage ==
    \E t \in {"locations", "units"} :
        /\ table = "none"
        /\ table' = t
        /\ StoreUntouched
        /\ UNCHANGED <<board, filters, form>>
        /\ handler' = "Manage"

FormManagerEdit ==
    \E sel \in Selections :
        /\ table # "none"
        /\ manager_edit(sel, Some(<<>>), Some(<<>>))

NextForm ==
    \/ AppNewIncident
    \/ AppEditSelected
    \/ AppFillForm
    \/ AppSave
    \/ AppMarkCleared
    \/ FormManage
    \/ AppManagerClose
    \/ FormManagerEdit

SpecForm == InitApp /\ [][NextForm]_vars

\* The form is as _load_existing leaves it on the incident it edits: no field
\* was touched since it opened.
Untouched ==
    /\ form # NoForm
    /\ Truthy(form.inc_id)
    /\ form.inc_id[1] \in DOMAIN incidents
    /\ form = LoadExisting(NewForm(<<1, 0>>), form.inc_id[1])

\* C22: Save on an edit form no field of which was touched leaves the
\* incident's location, type, four timestamps, disposition and cleared flag,
\* its primary unit and its set of backup units as they were.
C22_EditRoundTrip ==
    [][(Untouched /\ handler' = "IncidentForm.save") =>
           /\ err' = NoError
           /\ incidents'[form.inc_id[1]] = incidents[form.inc_id[1]]
           /\ UnitIds(incident_units', form.inc_id[1], "primary")
                  = UnitIds(incident_units, form.inc_id[1], "primary")
           /\ Range(UnitIds(incident_units', form.inc_id[1], "backup"))
                  = Range(UnitIds(incident_units, form.inc_id[1], "backup"))]_vars

====
